---- MODULE Spec2Model ----
(***************************************************************************)
(* Model of aioredis/commands/json/__init__.py: the JSON module client,    *)
(* its response-callback table, the _decode fallback chain, _encode, and   *)
(* the pipeline factory.                                                   *)
(*                                                                         *)
(* Python values are tagged records.  Text (str) and byte strings (bytes)  *)
(* are sequences of one-character strings, so that encoding and parsing    *)
(* are computed character by character.                                    *)
(***************************************************************************)
EXTENDS Integers, Sequences, FiniteSets, TLC

(***************************************************************************)
(* Bounds of the model.                                                    *)
(***************************************************************************)
MaxDepth == 1
MaxLen == 2
MaxPipes == 2
MaxStack == 2
MaxBatch == 3

(***************************************************************************)
(* Python values.                                                          *)
(***************************************************************************)
PyNone == [t |-> "none"]
PyBool(b) == [t |-> "bool", bv |-> b]
PyInt(n) == [t |-> "int", n |-> n]
PyStr(s) == [t |-> "str", s |-> s]
PyBytes(s) == [t |-> "bytes", b |-> s]
PyList(xs) == [t |-> "list", items |-> xs]
PyDict(ks, vs) == [t |-> "dict", ks |-> ks, vs |-> vs]

(* Outcome of a Python call: a returned value or a raised exception, with  *)
(* the sequence of collaborator calls made on the way.                     *)
Return(v, calls) == [k |-> "return", v |-> v, calls |-> calls]
Raise(e, calls) == [k |-> "raise", e |-> e, calls |-> calls]
Returns(o) == o.k = "return"
Raises(o) == o.k = "raise"
RaisesOf(o, es) == o.k = "raise" /\ o.e \in es

(* A byte that is not valid UTF-8; bytes.decode() raises on it. *)
BadByte == "0xFF"
DQ == "\""
BS == "\\"
Digit == <<"0", "1", "2", "3", "4", "5", "6", "7", "8", "9">>
DigitChars == {Digit[i] : i \in 1..10}
DigitVal(c) == (CHOOSE i \in 1..10 : Digit[i] = c) - 1

(***************************************************************************)
(* json.JSONEncoder().encode: the default encoder (ensure_ascii, item      *)
(* separator ", ", key separator ": ").                                    *)
(***************************************************************************)
RECURSIVE Digits(_)
Digits(n) == IF n < 10 THEN <<Digit[n + 1]>>
             ELSE Digits(n \div 10) \o <<Digit[(n % 10) + 1]>>

IntText(n) == IF n < 0 THEN <<"-">> \o Digits(0 - n) ELSE Digits(n)

EscapeChar(c) == IF c = DQ THEN <<BS, DQ>>
                 ELSE IF c = BS THEN <<BS, BS>>
                 ELSE <<c>>

RECURSIVE EscapeStr(_)
EscapeStr(s) == IF s = <<>> THEN <<>>
                ELSE EscapeChar(Head(s)) \o EscapeStr(Tail(s))

StrText(s) == <<DQ>> \o EscapeStr(s) \o <<DQ>>

RECURSIVE EncodeValue(_), EncodeItems(_), EncodeMembers(_, _)
EncodeValue(v) ==
    CASE v.t = "none" -> <<"n", "u", "l", "l">>
      [] v.t = "bool" -> IF v.bv THEN <<"t", "r", "u", "e">>
                         ELSE <<"f", "a", "l", "s", "e">>
      [] v.t = "int" -> IntText(v.n)
      [] v.t = "str" -> StrText(v.s)
      [] v.t = "list" -> <<"[">> \o EncodeItems(v.items) \o <<"]">>
      [] v.t = "dict" -> <<"{">> \o EncodeMembers(v.ks, v.vs) \o <<"}">>

EncodeItems(xs) ==
    IF xs = <<>> THEN <<>>
    ELSE IF Len(xs) = 1 THEN EncodeValue(xs[1])
    ELSE EncodeValue(xs[1]) \o <<",", " ">> \o EncodeItems(Tail(xs))

EncodeMembers(ks, vs) ==
    IF ks = <<>> THEN <<>>
    ELSE LET m == StrText(ks[1]) \o <<":", " ">> \o EncodeValue(vs[1])
         IN IF Len(ks) = 1 THEN m
            ELSE m \o <<",", " ">> \o EncodeMembers(Tail(ks), Tail(vs))

encoder_encode(obj) == PyStr(EncodeValue(obj))

(***************************************************************************)
(* json.JSONDecoder().decode: the default decoder.  A scan result is       *)
(* [ok, v, i]: the value and the index after it, or [ok |-> FALSE].        *)
(***************************************************************************)
Fail == [ok |-> FALSE]
Ok(v, i) == [ok |-> TRUE, v |-> v, i |-> i]
At(s, i) == IF i >= 1 /\ i <= Len(s) THEN s[i] ELSE "EOF"

RECURSIVE SkipWs(_, _)
SkipWs(s, i) == IF At(s, i) = " " THEN SkipWs(s, i + 1) ELSE i

IsLit(s, i, lit) ==
    /\ i + Len(lit) - 1 <= Len(s)
    /\ \A j \in 1..Len(lit) : s[i + j - 1] = lit[j]

(* scanstring: i is the index after the opening quote. *)
RECURSIVE ScanString(_, _, _)
ScanString(s, i, acc) ==
    IF At(s, i) = "EOF" THEN Fail
    ELSE IF At(s, i) = DQ THEN Ok(acc, i + 1)
    ELSE IF At(s, i) = BS
         THEN IF At(s, i + 1) \in {DQ, BS}
              THEN ScanString(s, i + 2, Append(acc, At(s, i + 1)))
              ELSE Fail
    ELSE ScanString(s, i + 1, Append(acc, At(s, i)))

(* The digits after the first digit of a number. *)
RECURSIVE ScanDigits(_, _, _)
ScanDigits(s, i, n) ==
    IF At(s, i) \in DigitChars
    THEN ScanDigits(s, i + 1, n * 10 + DigitVal(At(s, i)))
    ELSE Ok(n, i)

(* NUMBER_RE: an optional minus sign, then 0 or a digit 1-9 followed by     *)
(* digits; fractions and exponents are outside the alphabet.               *)
Signed(neg, r) == Ok(PyInt(IF neg THEN 0 - r.v ELSE r.v), r.i)

ScanUnsigned(s, j, neg) ==
    IF At(s, j) \notin DigitChars THEN Fail
    ELSE IF At(s, j) = "0" THEN Signed(neg, Ok(0, j + 1))
    ELSE Signed(neg, ScanDigits(s, j + 1, DigitVal(At(s, j))))

ScanNumber(s, i) ==
    IF At(s, i) = "-" THEN ScanUnsigned(s, i + 1, TRUE)
    ELSE ScanUnsigned(s, i, FALSE)

(* dict[key] = value: a repeated key keeps its place and takes the new value. *)
DictPut(ks, vs, key, v) ==
    IF \E j \in 1..Len(ks) : ks[j] = key
    THEN [ks |-> ks,
          vs |-> [j \in 1..Len(vs) |-> IF ks[j] = key THEN v ELSE vs[j]]]
    ELSE [ks |-> Append(ks, key), vs |-> Append(vs, v)]

StringValue(r) == IF r.ok THEN Ok(PyStr(r.v), r.i) ELSE Fail

(* scan_once, JSONArray and JSONObject; each step hands what it has read   *)
(* to the next.                                                            *)
RECURSIVE ScanOnce(_, _)
RECURSIVE ScanArray(_, _, _), ArrayItem(_, _, _), ArrayNext(_, _, _)
RECURSIVE ScanObject(_, _, _, _), ObjectKey(_, _, _, _), ObjectColon(_, _, _, _, _)
RECURSIVE ObjectValue(_, _, _, _, _), ObjectNext(_, _, _), ObjectNextKey(_, _, _)

ArrayStart(s, j) ==
    IF At(s, j) = "]" THEN Ok(PyList(<<>>), j + 1) ELSE ScanArray(s, j, <<>>)

ObjectStart(s, j) ==
    IF At(s, j) = "}" THEN Ok(PyDict(<<>>, <<>>), j + 1)
    ELSE IF At(s, j) = DQ THEN ScanObject(s, j + 1, <<>>, <<>>)
    ELSE Fail

ScanOnce(s, i) ==
    CASE At(s, i) = DQ -> StringValue(ScanString(s, i + 1, <<>>))
      [] At(s, i) = "{" -> ObjectStart(s, SkipWs(s, i + 1))
      [] At(s, i) = "[" -> ArrayStart(s, SkipWs(s, i + 1))
      [] IsLit(s, i, <<"n", "u", "l", "l">>) -> Ok(PyNone, i + 4)
      [] IsLit(s, i, <<"t", "r", "u", "e">>) -> Ok(PyBool(TRUE), i + 4)
      [] IsLit(s, i, <<"f", "a", "l", "s", "e">>) -> Ok(PyBool(FALSE), i + 5)
      [] OTHER -> ScanNumber(s, i)

(* JSONArray: i is the index of the next value. *)
ScanArray(s, i, acc) == ArrayItem(s, acc, ScanOnce(s, i))

ArrayItem(s, acc, r) ==
    IF ~r.ok THEN Fail ELSE ArrayNext(s, SkipWs(s, r.i), Append(acc, r.v))

ArrayNext(s, j, items) ==
    IF At(s, j) = "]" THEN Ok(PyList(items), j + 1)
    ELSE IF At(s, j) = "," THEN ScanArray(s, SkipWs(s, j + 1), items)
    ELSE Fail

(* JSONObject: i is the index after the opening quote of the next key. *)
ScanObject(s, i, ks, vs) == ObjectKey(s, ks, vs, ScanString(s, i, <<>>))

ObjectKey(s, ks, vs, key) ==
    IF ~key.ok THEN Fail ELSE ObjectColon(s, ks, vs, key.v, SkipWs(s, key.i))

ObjectColon(s, ks, vs, k, j) ==
    IF At(s, j) # ":" THEN Fail
    ELSE ObjectValue(s, ks, vs, k, ScanOnce(s, SkipWs(s, j + 1)))

ObjectValue(s, ks, vs, k, r) ==
    IF ~r.ok THEN Fail
    ELSE ObjectNext(s, DictPut(ks, vs, k, r.v), SkipWs(s, r.i))

ObjectNext(s, d, e) ==
    IF At(s, e) = "}" THEN Ok(PyDict(d.ks, d.vs), e + 1)
    ELSE IF At(s, e) = "," THEN ObjectNextKey(s, d, SkipWs(s, e + 1))
    ELSE Fail

ObjectNextKey(s, d, q) ==
    IF At(s, q) = DQ THEN ScanObject(s, q + 1, d.ks, d.vs) ELSE Fail

(* raw_decode and the end check: one value, trailing whitespace, the end. *)
WholeText(s, r) ==
    IF r.ok
    THEN IF SkipWs(s, r.i) = Len(s) + 1 THEN Return(r.v, <<"decoder.decode">>)
         ELSE Raise("JSONDecodeError", <<"decoder.decode">>)
    ELSE Raise("JSONDecodeError", <<"decoder.decode">>)

(* JSONDecoder.decode(s): leading whitespace, one value, trailing          *)
(* whitespace, then the end of the text.  Anything that is not a str       *)
(* raises TypeError in the whitespace match.                               *)
decoder_decode(obj) ==
    IF obj.t # "str" THEN Raise("TypeError", <<"decoder.decode">>)
    ELSE WholeText(obj.s, ScanOnce(obj.s, SkipWs(obj.s, 1)))

(***************************************************************************)
(* Python built-ins used by the callbacks.                                 *)
(***************************************************************************)
(* obj.decode(): only bytes has the method; it decodes UTF-8. *)
obj_decode(obj) ==
    IF obj.t # "bytes" THEN Raise("AttributeError", <<"obj.decode">>)
    ELSE IF \E i \in 1..Len(obj.b) : obj.b[i] = BadByte
    THEN Raise("UnicodeDecodeError", <<"obj.decode">>)
    ELSE Return(PyStr(obj.b), <<"obj.decode">>)

(* Truth value testing, as `and` applies it to its left operand. *)
Truthy(v) ==
    CASE v.t = "none" -> FALSE
      [] v.t = "bool" -> v.bv
      [] v.t = "int" -> v.n # 0
      [] v.t = "str" -> v.s # <<>>
      [] v.t = "bytes" -> v.b # <<>>
      [] v.t = "list" -> v.items # <<>>
      [] v.t = "dict" -> v.ks # <<>>

RECURSIVE StripLeft(_)
StripLeft(s) == IF s # <<>> /\ Head(s) = " " THEN StripLeft(Tail(s)) ELSE s

RECURSIVE StripRight(_)
StripRight(s) == IF s # <<>> /\ s[Len(s)] = " "
                 THEN StripRight(SubSeq(s, 1, Len(s) - 1)) ELSE s

RECURSIVE DecimalValue(_, _)
DecimalValue(s, n) == IF s = <<>> THEN n
                      ELSE DecimalValue(Tail(s), n * 10 + DigitVal(Head(s)))

IntOfDigits(d, neg) ==
    IF d # <<>> /\ \A i \in 1..Len(d) : d[i] \in DigitChars
    THEN Return(PyInt(IF neg THEN 0 - DecimalValue(d, 0) ELSE DecimalValue(d, 0)),
                <<"int">>)
    ELSE Raise("ValueError", <<"int">>)

IntOfText(s) ==
    IF s # <<>> /\ Head(s) \in {"-", "+"} THEN IntOfDigits(Tail(s), Head(s) = "-")
    ELSE IntOfDigits(s, FALSE)

(* int(x): numbers convert, text is stripped and read as a signed decimal. *)
py_int(x) ==
    CASE x.t = "int" -> Return(x, <<"int">>)
      [] x.t = "bool" -> Return(PyInt(IF x.bv THEN 1 ELSE 0), <<"int">>)
      [] x.t = "str" -> IntOfText(StripRight(StripLeft(x.s)))
      [] x.t = "bytes" -> IntOfText(StripRight(StripLeft(x.b)))
      [] OTHER -> Raise("TypeError", <<"int">>)

(***************************************************************************)
(* Helpers imported from ..helpers and .decoders.                          *)
(***************************************************************************)
(* nativestr: the response as native text. *)
nativestr(x) == IF x.t = "bytes" THEN PyStr(x.b) ELSE x

(* The text path applied to one text leaf: parse it, null being a failure. *)
LeafValue(p) ==
    IF Returns(p) THEN (IF p.v.t # "none" THEN [ok |-> TRUE, v |-> p.v] ELSE Fail)
    ELSE Fail

LeafParsed(d) == IF Returns(d) THEN LeafValue(decoder_decode(d.v)) ELSE Fail

LeafText(x) ==
    IF x.t = "bytes" THEN LeafParsed(obj_decode(x)) ELSE LeafParsed(Return(x, <<>>))

ListValue(r) == IF r.ok THEN [ok |-> TRUE, v |-> PyList(r.v)] ELSE Fail

JoinLeaves(h, r) ==
    IF h.ok THEN (IF r.ok THEN [ok |-> TRUE, v |-> <<h.v>> \o r.v] ELSE Fail)
    ELSE Fail

RECURSIVE DecodeLeaves(_), DecodeLeaf(_)
DecodeLeaf(x) ==
    CASE x.t \in {"bytes", "str"} -> LeafText(x)
      [] x.t = "list" -> ListValue(DecodeLeaves(x.items))
      [] OTHER -> [ok |-> TRUE, v |-> x]

DecodeLeaves(xs) ==
    IF xs = <<>> THEN [ok |-> TRUE, v |-> <<>>]
    ELSE JoinLeaves(DecodeLeaf(xs[1]), DecodeLeaves(Tail(xs)))

DecodedList(r) ==
    IF r.ok THEN Return(PyList(r.v), <<"decode_list">>)
    ELSE Raise("DecodeError", <<"decode_list">>)

(* decode_list: the structural fallback. *)
decode_list(b) ==
    CASE b.t = "list" -> DecodedList(DecodeLeaves(b.items))
      [] b.t \in {"bytes", "str"} -> Raise("DecodeError", <<"decode_list">>)
      [] OTHER -> Return(b, <<"decode_list">>)

(***************************************************************************)
(* JSON._decode and JSON._encode.                                          *)
(***************************************************************************)
After(pre, o) == [o EXCEPT !.calls = pre \o @]

(* `if obj is None` *)
AbsentCheck_Never(obj) == FALSE
AbsentCheck(obj) == obj.t = "none"

(* `if x is None` on the parsed value *)
ParsedNull_Falsy(x) == ~Truthy(x)
ParsedNull(x) == x.t = "none"

(* `except AttributeError: return decode_list(obj)` *)
AttributeFallback_Reraise(obj) == Raise("AttributeError", <<>>)
AttributeFallback(obj) == decode_list(obj)

(* `return self.__decoder__.decode(obj.decode())` and its handler *)
OnDecodedText(obj, y) ==
    IF RaisesOf(y, {"AttributeError"}) THEN After(y.calls, AttributeFallback(obj))
    ELSE y

(* `except TypeError:` *)
OnTypeError(obj, d) ==
    IF RaisesOf(d, {"AttributeError"}) THEN After(d.calls, AttributeFallback(obj))
    ELSE IF Raises(d) THEN d
    ELSE After(d.calls, OnDecodedText(obj, decoder_decode(d.v)))

(* The try block on x = self.__decoder__.decode(obj) and its handlers. *)
OnParsed(obj, x) ==
    IF Returns(x)
    THEN IF ParsedNull(x.v) THEN After(x.calls, OnTypeError(obj, obj_decode(obj)))
         ELSE x
    ELSE IF x.e = "TypeError" THEN After(x.calls, OnTypeError(obj, obj_decode(obj)))
    ELSE IF x.e \in {"AttributeError", "JSONDecodeError"}
    THEN After(x.calls, decode_list(obj))
    ELSE x

_decode(obj) ==
    IF AbsentCheck(obj) THEN Return(obj, <<>>)
    ELSE OnParsed(obj, decoder_decode(obj))

_encode(obj) == encoder_encode(obj)

(***************************************************************************)
(* The response callbacks of MODULE_CALLBACKS.                             *)
(***************************************************************************)
ModuleCallbackTable_MgetUnwrapped ==
    [c \in {"JSON.CLEAR", "JSON.DEL", "JSON.FORGET"} |-> "int"]
    @@ ("JSON.SET" :> "set")
    @@ [c \in {"JSON.GET", "JSON.MGET", "JSON.NUMINCRBY", "JSON.NUMMULTBY",
               "JSON.TOGGLE", "JSON.STRAPPEND", "JSON.STRLEN", "JSON.ARRAPPEND",
               "JSON.ARRINDEX", "JSON.ARRINSERT", "JSON.ARRLEN", "JSON.ARRPOP",
               "JSON.ARRTRIM", "JSON.OBJLEN", "JSON.OBJKEYS", "JSON.RESP",
               "JSON.DEBUG"} |-> "_decode"]

ModuleCallbackTable ==
    [c \in {"JSON.CLEAR", "JSON.DEL", "JSON.FORGET"} |-> "int"]
    @@ ("JSON.MGET" :> "bulk_of_jsons") @@ ("JSON.SET" :> "set")
    @@ [c \in {"JSON.GET", "JSON.NUMINCRBY", "JSON.NUMMULTBY", "JSON.TOGGLE",
               "JSON.STRAPPEND", "JSON.STRLEN", "JSON.ARRAPPEND",
               "JSON.ARRINDEX", "JSON.ARRINSERT", "JSON.ARRLEN", "JSON.ARRPOP",
               "JSON.ARRTRIM", "JSON.OBJLEN", "JSON.OBJKEYS", "JSON.RESP",
               "JSON.DEBUG"} |-> "_decode"]

ModuleCommands == DOMAIN ModuleCallbackTable

UpperChar(c) == CASE c = "o" -> "O" [] c = "k" -> "K" [] OTHER -> c
Upper(s) == [i \in 1..Len(s) |-> UpperChar(s[i])]

IsOkIgnoringCase(n) == IF n.t = "str" THEN Upper(n.s) = <<"O", "K">> ELSE FALSE

SetCallback_IgnoreCase(r) ==
    IF ~Truthy(r) THEN Return(r, <<>>)
    ELSE Return(PyBool(IsOkIgnoringCase(nativestr(r))), <<"nativestr">>)

(* lambda r: r and nativestr(r) == "OK" *)
SetCallback(r) ==
    IF ~Truthy(r) THEN Return(r, <<>>)
    ELSE Return(PyBool(nativestr(r) = PyStr(<<"O", "K">>)), <<"nativestr">>)

(* bulk_of_jsons(self._decode): _decode on every element that is not      *)
(* None, the others staying None.                                          *)
JoinResults(h, r) ==
    IF Raises(h) THEN h
    ELSE IF Raises(r) THEN After(h.calls, r)
    ELSE Return(<<h.v>> \o r.v, h.calls \o r.calls)

ListResult(r) == IF Raises(r) THEN r ELSE Return(PyList(r.v), r.calls)

BulkItem(x) == IF x.t = "none" THEN Return(x, <<>>) ELSE _decode(x)

RECURSIVE BulkItems(_)
BulkItems(xs) ==
    IF xs = <<>> THEN Return(<<>>, <<>>)
    ELSE JoinResults(BulkItem(xs[1]), BulkItems(Tail(xs)))

bulk_of_jsons(b) ==
    IF b.t # "list" THEN Raise("TypeError", <<>>)
    ELSE ListResult(BulkItems(b.items))

(* Applying the transform a table entry names to a raw response. *)
ApplyCallback(f, r) ==
    CASE f = "int" -> py_int(r)
      [] f = "_decode" -> _decode(r)
      [] f = "bulk_of_jsons" -> bulk_of_jsons(r)
      [] f = "set" -> SetCallback(r)
      [] OTHER -> Return(r, <<>>)

(***************************************************************************)
(* Input universes.                                                        *)
(***************************************************************************)
SeqsUpTo(S, n) == UNION {[1..k -> S] : k \in 0..n}

Atoms == {PyNone, PyBool(TRUE), PyBool(FALSE), PyInt(0), PyInt(12),
          PyInt(0 - 3), PyStr(<<>>), PyStr(<<"a", DQ, BS>>)}

DictAtoms == {PyNone, PyInt(7), PyStr(<<"a">>)}

Key(i) == IF i = 1 THEN <<"a", DQ>> ELSE <<"k">> \o Digits(i)

FlatLists == {PyList(xs) : xs \in SeqsUpTo(Atoms, MaxLen)}

FlatDicts == {PyDict([i \in 1..Len(vs) |-> Key(i)], vs) :
                 vs \in SeqsUpTo(DictAtoms, MaxLen)}

Nest(V) == {PyList(<<v>>) : v \in V}
           \cup {PyList(<<PyInt(0), v>>) : v \in V}
           \cup {PyDict(<<Key(1)>>, <<v>>) : v \in V}

RECURSIVE ValuesOfDepth(_)
ValuesOfDepth(d) ==
    IF d = 0 THEN Atoms
    ELSE LET P == ValuesOfDepth(d - 1)
         IN P \cup Nest(P) \cup FlatLists \cup FlatDicts

(* The canonical values: null, booleans, numbers, strings, sequences, mappings. *)
CanonicalValues == ValuesOfDepth(MaxDepth)

(* Texts that are not what the encoder writes. *)
OddTexts ==
    {<<"O", "K">>, <<"o", "k">>, <<"O", "k">>, <<>>, <<" ">>,
     <<"n", "u", "l">>, <<" ", "n", "u", "l", "l", " ">>,
     <<"[", "1", ",", "]">>, <<"{">>, <<DQ, "a">>, <<"0", "1">>,
     <<"1", " ", "2">>, <<"-">>, <<" ", "1", "2", " ">>,
     <<"[", " ", "1", " ", ",", "t", "r", "u", "e", " ", "]">>,
     <<"{", DQ, "a", DQ, ":", "1", ",", DQ, "a", DQ, ":", "2", "}">>,
     <<"x">>}

EncodedTexts == {EncodeValue(v) : v \in CanonicalValues}

Texts == EncodedTexts \cup OddTexts

(* Leaves of a response the protocol layer has already structured. *)
Leaves == {PyBytes(<<DQ, "a", DQ>>), PyBytes(<<"t", "r", "u", "e">>),
           PyBytes(<<"{", DQ, "k", DQ, ":", " ", "7", "}">>),
           PyBytes(<<"x">>), PyBytes(<<"n", "u", "l", "l">>),
           PyInt(1), PyBool(TRUE), PyNone}

StructuredResponses ==
    {PyList(xs) : xs \in SeqsUpTo(Leaves, MaxLen + 1)}
    \cup {PyList(<<PyInt(1), PyList(xs)>>) : xs \in SeqsUpTo(Leaves, MaxLen)}
    \cup {PyInt(5), PyInt(0), PyBool(FALSE), PyBool(TRUE)}

(* The raw responses: absence, encoded text as bytes or str, structured. *)
RawResponses ==
    {PyNone}
    \cup {PyBytes(s) : s \in Texts} \cup {PyStr(s) : s \in Texts}
    \cup {PyBytes(<<BadByte>>), PyBytes(<<DQ, BadByte, DQ>>)}
    \cup StructuredResponses

VARIABLES
    call,               \* the last call: [op, cmd, cmds, arg, ret, wire]
    MODULE_CALLBACKS,   \* JSON.MODULE_CALLBACKS
    response_callbacks, \* client.response_callbacks
    pipes,              \* the Pipeline objects created so far
    sessions            \* the Pipeline object each pipeline() call returned

clientVars == <<MODULE_CALLBACKS, response_callbacks>>
batchVars == <<pipes, sessions>>
vars == <<call, MODULE_CALLBACKS, response_callbacks, pipes, sessions>>

(* A call record: the operation, its command, the queued commands it       *)
(* concerned, its argument, its outcome and what it wrote to the transport.*)
CallRecord(op, cmd, cmds, arg, ret, wire) ==
    [op |-> op, cmd |-> cmd, cmds |-> cmds, arg |-> arg, ret |-> ret, wire |-> wire]
Called(op, cmd, arg, ret) == CallRecord(op, cmd, <<>>, arg, ret, <<>>)

(* The client before the JSON client wraps it: no callback registered. *)
NoCallbacks == [c \in {} |-> "none"]

RegisterAll_AlwaysDecode(registry, table) ==
    [c \in DOMAIN registry \cup DOMAIN table |->
        IF c \in DOMAIN table THEN "_decode" ELSE registry[c]]

(* for key, value in self.MODULE_CALLBACKS.items():                        *)
(*     self.client.set_response_callback(key, value)                       *)
RegisterAll(registry, table) ==
    [c \in DOMAIN registry \cup DOMAIN table |->
        IF c \in DOMAIN table THEN table[c] ELSE registry[c]]

(* JSON.__init__ *)
JSONInit ==
    /\ MODULE_CALLBACKS = ModuleCallbackTable
    /\ response_callbacks = RegisterAll(NoCallbacks, ModuleCallbackTable)
    /\ pipes = <<>>
    /\ sessions = <<>>

(***************************************************************************)
(* The codec specification: Init draws one input, the actions apply the    *)
(* methods and the callbacks to it.                                        *)
(***************************************************************************)
CodecInit ==
    /\ \E x \in CanonicalValues \cup RawResponses :
          call = Called("input", "", x, Return(PyNone, <<>>))
    /\ JSONInit

Encode ==
    /\ call.op = "input"
    /\ call.arg \in CanonicalValues
    /\ call' = Called("_encode", "", call.arg,
                      Return(_encode(call.arg), <<"encoder.encode">>))
    /\ UNCHANGED <<clientVars, batchVars>>

(* _decode fed the text _encode has just produced. *)
DecodeEncoded ==
    /\ call.op = "_encode"
    /\ call' = Called("roundtrip", "", call.arg, _decode(call.ret.v))
    /\ UNCHANGED <<clientVars, batchVars>>

Decode ==
    /\ call.op = "input"
    /\ call.arg \in RawResponses
    /\ call' = Called("_decode", "", call.arg, _decode(call.arg))
    /\ UNCHANGED <<clientVars, batchVars>>

Callback(cmd) ==
    /\ call.op = "input"
    /\ call.arg \in RawResponses
    /\ call' = Called("callback", cmd, call.arg,
                      ApplyCallback(response_callbacks[cmd], call.arg))
    /\ UNCHANGED <<clientVars, batchVars>>

CodecNext ==
    \/ Encode
    \/ DecodeEncoded
    \/ Decode
    \/ \E cmd \in ModuleCommands : Callback(cmd)

SpecCodec == CodecInit /\ [][CodecNext]_vars

(***************************************************************************)
(* The client: immediate execution and pipelines.                          *)
(***************************************************************************)
(* The transform a callback mapping holds for a command: its entry, or     *)
(* the raw response unchanged when it has none.                            *)
Transform(callbacks, cmd) ==
    IF cmd \in DOMAIN callbacks THEN callbacks[cmd] ELSE "passthrough"

(* response_callbacks=self.MODULE_CALLBACKS *)
PipelineCallbacks_None(table) == NoCallbacks
PipelineCallbacks(table) == table

(* Pipeline.__init__ *)
NewPipeline(callbacks) ==
    [command_stack |-> <<>>, response_callbacks |-> callbacks]

(* p = Pipeline(...): a new object on every call *)
PipelineObject_Shared(objects) == 1
PipelineObject(objects) == Len(objects) + 1

Stack(s) == pipes[sessions[s]].command_stack

(* self.execute_command = client.execute_command: send, await, transform. *)
ExecuteCommand(cmd, raw) ==
    /\ call' = CallRecord("execute_command", cmd, <<>>, raw,
                          ApplyCallback(Transform(response_callbacks, cmd), raw),
                          <<cmd>>)
    /\ UNCHANGED <<clientVars, batchVars>>

(* JSON.pipeline *)
pipeline(limit) ==
    /\ Len(sessions) < limit
    /\ pipes' = IF PipelineObject(pipes) > Len(pipes)
                THEN Append(pipes, NewPipeline(PipelineCallbacks(MODULE_CALLBACKS)))
                ELSE pipes
    /\ sessions' = Append(sessions, PipelineObject(pipes))
    /\ call' = Called("pipeline", "", PyInt(Len(sessions) + 1), Return(PyNone, <<>>))
    /\ UNCHANGED clientVars

(* A command method on a pipeline: the command joins the stack. *)
PipeAppend(s, cmd, limit) ==
    /\ Len(Stack(s)) < limit
    /\ pipes' = [pipes EXCEPT ![sessions[s]].command_stack = Append(@, cmd)]
    /\ call' = Called("append", cmd, PyInt(s), Return(PyNone, <<>>))
    /\ UNCHANGED <<clientVars, sessions>>

(* Each response through the transform of the command at its position;     *)
(* a transform that raises makes the flush raise.                          *)
RECURSIVE FlushResults(_, _, _)
FlushResults(callbacks, cmds, raws) ==
    IF cmds = <<>> THEN Return(<<>>, <<>>)
    ELSE JoinResults(ApplyCallback(Transform(callbacks, cmds[1]), raws[1]),
                     FlushResults(callbacks, Tail(cmds), Tail(raws)))

Flushed(r) == [ListResult(r) EXCEPT !.calls = <<>>]

(* Pipeline.execute: the stack goes out as one unit and is emptied. *)
PipeExecute(s, raws) ==
    /\ Len(raws) = Len(Stack(s))
    /\ pipes' = [pipes EXCEPT ![sessions[s]].command_stack = <<>>]
    /\ call' = CallRecord("execute", "", Stack(s), PyList(raws),
                          Flushed(FlushResults(pipes[sessions[s]].response_callbacks,
                                               Stack(s), raws)),
                          Stack(s))
    /\ UNCHANGED <<clientVars, sessions>>

(* Pipeline.reset: the stack is dropped, nothing is sent. *)
PipeReset(s) ==
    /\ pipes' = [pipes EXCEPT ![sessions[s]].command_stack = <<>>]
    /\ call' = CallRecord("reset", "", Stack(s), PyInt(s), Return(PyNone, <<>>), <<>>)
    /\ UNCHANGED <<clientVars, sessions>>

(* Commands and server replies of the session specification. *)
SessionCommands == {"JSON.GET", "GET"}
SessionReplies == {PyNone, PyBytes(<<DQ, "a", DQ>>)}

Init == call = Called("init", "", PyNone, Return(PyNone, <<>>)) /\ JSONInit

Next ==
    \/ \E cmd \in SessionCommands, raw \in SessionReplies : ExecuteCommand(cmd, raw)
    \/ pipeline(MaxPipes)
    \/ \E s \in 1..Len(sessions), cmd \in SessionCommands : PipeAppend(s, cmd, MaxStack)
    \/ \E s \in 1..Len(sessions) :
          \E raws \in [1..Len(Stack(s)) -> SessionReplies] : PipeExecute(s, raws)
    \/ \E s \in 1..Len(sessions) : PipeReset(s)

Spec == Init /\ [][Next]_vars

(* Commands and server replies of the one-batch specification. *)
BatchCommands == {"JSON.GET", "JSON.SET", "JSON.DEL", "GET"}
BatchReplies == {PyNone, PyBytes(<<"O", "K">>), PyBytes(<<DQ, "a", DQ>>),
                 PyBytes(<<"1", "2">>)}

BatchNext ==
    \/ pipeline(1)
    \/ \E s \in 1..Len(sessions), cmd \in BatchCommands : PipeAppend(s, cmd, MaxBatch)
    \/ \E s \in 1..Len(sessions) :
          \E raws \in [1..Len(Stack(s)) -> BatchReplies] : PipeExecute(s, raws)
    \/ \E s \in 1..Len(sessions) : PipeReset(s)

SpecBatch == Init /\ [][BatchNext]_vars

(***************************************************************************)
(* Properties of the codec.                                                *)
(***************************************************************************)
IsText(r) == r.t \in {"str", "bytes"}
TextOf(r) == IF r.t = "str" THEN r.s ELSE r.b
OnCallback(cmd) == call.op = "callback" /\ call.cmd = cmd

(* The non-null raw responses Python treats as false. *)
EmptyResponses == {PyStr(<<>>), PyBytes(<<>>), PyInt(0), PyBool(FALSE),
                   PyList(<<>>), PyDict(<<>>, <<>>)}

(* C1, as stated: for a non-null raw response the JSON.SET transform       *)
(* returns the boolean true iff the response equals "OK" ignoring case.    *)
C1_SetTrueIffOkIgnoringCase ==
    (OnCallback("JSON.SET") /\ call.arg # PyNone) =>
        ((Returns(call.ret) /\ call.ret.v = PyBool(TRUE))
            <=> (IsText(call.arg) /\ Upper(TextOf(call.arg)) = <<"O", "K">>))

(* C1, amended: the JSON.SET transform returns true iff the raw response   *)
(* is the text or bytes "OK" exactly (case matters); every other non-empty *)
(* raw response gives the boolean false; an empty non-null raw response is *)
(* returned as it is, not as the boolean false.                            *)
C1_SetTrueIffExactOk ==
    (OnCallback("JSON.SET") /\ call.arg # PyNone) =>
        /\ Returns(call.ret)
        /\ IF call.arg \in EmptyResponses THEN call.ret.v = call.arg
           ELSE call.ret.v = PyBool(IsText(call.arg)
                                    /\ TextOf(call.arg) = <<"O", "K">>)

C1_Witness ==
    /\ OnCallback("JSON.SET")
    /\ call.arg = PyBytes(<<"o", "k">>)
    /\ call.ret.v = PyBool(FALSE)

(* C2, as stated: for every canonical value v, _decode(_encode(v)) returns v. *)
C2_RoundTripEveryValue ==
    call.op = "roundtrip" => Returns(call.ret) /\ call.ret.v = call.arg

(* C2, amended: for every canonical value v other than null,               *)
(* _decode(_encode(v)) returns v.                                          *)
C2_RoundTripNonNull ==
    (call.op = "roundtrip" /\ call.arg # PyNone) =>
        Returns(call.ret) /\ call.ret.v = call.arg

C2_Witness ==
    /\ call.op = "roundtrip"
    /\ call.arg = PyList(<<PyBool(FALSE), PyStr(<<"a", DQ, BS>>)>>)
    /\ Returns(call.ret)
    /\ call.ret.v = call.arg

(* C3: _decode returns null only when the raw response is absence. *)
C3_NullOnlyForAbsence ==
    (call.op = "_decode" /\ Returns(call.ret) /\ call.ret.v = PyNone) =>
        call.arg = PyNone

(* C4: every table entry bound to _decode maps absence to null at once,    *)
(* calling neither the text decoder nor the structural fallback, and       *)
(* raising nothing, whatever the command.                                  *)
C4_AbsenceGivesNull ==
    (/\ call.op = "callback"
     /\ MODULE_CALLBACKS[call.cmd] = "_decode"
     /\ call.arg = PyNone) =>
        call.ret = Return(PyNone, <<>>)

C4_Witness ==
    /\ OnCallback("JSON.ARRPOP")
    /\ call.arg = PyNone
    /\ call.ret = Return(PyNone, <<>>)

(* The canonical value of each well-formed leaf of the leaf pool. *)
GoodLeaves == {PyBytes(<<DQ, "a", DQ>>), PyBytes(<<"t", "r", "u", "e">>),
               PyBytes(<<"{", DQ, "k", DQ, ":", " ", "7", "}">>),
               PyInt(1), PyBool(TRUE)}

ExpectedLeaf(x) ==
    CASE x = PyBytes(<<DQ, "a", DQ>>) -> PyStr(<<"a">>)
      [] x = PyBytes(<<"t", "r", "u", "e">>) -> PyBool(TRUE)
      [] x = PyBytes(<<"{", DQ, "k", DQ, ":", " ", "7", "}">>) ->
           PyDict(<< <<"k">> >>, <<PyInt(7)>>)
      [] OTHER -> x

Twin(r) == IF r.t = "str" THEN PyBytes(r.s) ELSE PyStr(r.b)
SameOutcome(a, b) == a.k = b.k /\ (Returns(a) => a.v = b.v)
(* The text parse yields a value that is not null. *)
ParsesToValue(txt) ==
    LET p == decoder_decode(PyStr(txt)) IN Returns(p) /\ p.v # PyNone

(* C7: text the parse stage gets no value from makes _decode raise, and    *)
(* the outcome is the same for bytes and for a string of the same text.    *)
C7_DecodeFailureRaised ==
    (/\ call.op = "_decode"
     /\ IsText(call.arg)
     /\ \A i \in 1..Len(TextOf(call.arg)) : TextOf(call.arg)[i] # BadByte) =>
        /\ SameOutcome(call.ret, _decode(Twin(call.arg)))
        /\ ~ParsesToValue(TextOf(call.arg)) => Raises(call.ret)

(* C8: the JSON.MGET transform decodes a sequence element by element:      *)
(* absent elements stay null, the others are what _decode returns for      *)
(* them, in order; if one element raises, the transform raises.            *)
C8_MgetElementwise ==
    (OnCallback("JSON.MGET") /\ call.arg.t = "list") =>
        LET xs == call.arg.items
            out == [i \in 1..Len(xs) |->
                       IF xs[i] = PyNone THEN Return(PyNone, <<>>)
                       ELSE _decode(xs[i])]
        IN IF \E i \in 1..Len(xs) : Raises(out[i]) THEN Raises(call.ret)
           ELSE /\ Returns(call.ret)
                /\ call.ret.v = PyList([i \in 1..Len(xs) |-> out[i].v])
                /\ \A i \in 1..Len(xs) :
                      xs[i] \in GoodLeaves => call.ret.v.items[i] = ExpectedLeaf(xs[i])

C8_Witness ==
    /\ OnCallback("JSON.MGET")
    /\ call.arg = PyList(<<PyBytes(<<DQ, "a", DQ>>), PyNone,
                           PyBytes(<<"t", "r", "u", "e">>)>>)
    /\ call.ret.v = PyList(<<PyStr(<<"a">>), PyNone, PyBool(TRUE)>>)

(***************************************************************************)
(* Properties of the client and its pipelines.                             *)
(***************************************************************************)
(* What the table of the JSON client makes of a response to a command. *)
ExpectedAt(cmd, raw) ==
    IF cmd \in ModuleCommands THEN ApplyCallback(ModuleCallbackTable[cmd], raw)
    ELSE Return(raw, <<>>)

(* C5: executing a batch of N commands returns N results in the order the  *)
(* commands were queued, the i-th being the i-th raw response through the  *)
(* transform of the i-th command: the module transform for a module        *)
(* command, the raw response itself for any other command; if a transform  *)
(* raises, the flush raises.                                               *)
C5_BatchOrdering ==
    call.op = "execute" =>
        LET n == Len(call.cmds)
            exp == [i \in 1..n |-> ExpectedAt(call.cmds[i], call.arg.items[i])]
        IN IF \E i \in 1..n : Raises(exp[i]) THEN Raises(call.ret)
           ELSE /\ Returns(call.ret)
                /\ call.ret.v.t = "list"
                /\ Len(call.ret.v.items) = n
                /\ \A i \in 1..n : call.ret.v.items[i] = exp[i].v

C5_Witness ==
    /\ call.op = "execute"
    /\ call.cmds = <<"JSON.GET", "GET", "JSON.SET">>
    /\ call.arg = PyList(<<PyBytes(<<DQ, "a", DQ>>), PyBytes(<<DQ, "a", DQ>>),
                           PyBytes(<<"O", "K">>)>>)
    /\ call.ret.v = PyList(<<PyStr(<<"a">>), PyBytes(<<DQ, "a", DQ>>), PyBool(TRUE)>>)

(* C9: the table is the one built at construction; every module command is *)
(* registered with the client under exactly its table entry; and every     *)
(* pipeline holds, for every module command, the transform the client      *)
(* holds for it, whatever has been invoked, queued, flushed or discarded.   *)
C9_TableFrozenAndShared ==
    /\ MODULE_CALLBACKS = ModuleCallbackTable
    /\ \A c \in ModuleCommands :
          /\ c \in DOMAIN response_callbacks
          /\ response_callbacks[c] = ModuleCallbackTable[c]
    /\ \A i \in 1..Len(pipes) : \A c \in ModuleCommands :
          Transform(pipes[i].response_callbacks, c) = Transform(response_callbacks, c)

C9_Witness ==
    /\ call.op = "execute"
    /\ call.cmds # <<>>
    /\ Len(pipes) = 2

(* C10: pipeline(), a queued command and a discard write nothing to the    *)
(* transport; a discard leaves the session's batch empty; and none of the  *)
(* three changes the pending entries of another session.                   *)
C10_BatchIsolation ==
    [][call'.op \in {"pipeline", "append", "reset"} =>
          /\ call'.wire = <<>>
          /\ call'.op = "reset" =>
                pipes'[sessions'[call'.arg.n]].command_stack = <<>>
          /\ \A t \in 1..Len(sessions) :
                t # call'.arg.n => pipes'[sessions'[t]].command_stack = Stack(t)]_vars

C10_Witness ==
    /\ call.op = "reset"
    /\ call.cmds # <<>>
    /\ call.arg = PyInt(1)
    /\ call.wire = <<>>
    /\ Len(sessions) = 2
    /\ Stack(1) = <<>>
    /\ Stack(2) # <<>>
====
